---- MODULE Spec2Model ----
(***************************************************************************)
(* Model of three parts of the framework:                                  *)
(*   - the WebView Page controller (core/client, class Page): open/close,  *)
(*   - the vehicle helpers toggleEngine / toggleDoor,                      *)
(*   - the default weather system (rotation timer, updatePlayer, disable). *)
(* Host calls issued by one operation are recorded, in order, in `calls`.  *)
(***************************************************************************)
EXTENDS Integers, Sequences, FiniteSets, TLC

VARIABLES
    info,        \* Page.info: the IPage descriptor given to the constructor
    pageOpen,    \* what AthenaClient.webview.isPageOpen(info.name) reports
    isMenuOpen,  \* alt.Player.local.isMenuOpen
    calls,       \* host calls issued by the most recent Page operation, in order
    ret,         \* value returned by the most recent Page operation
    last,        \* the most recent Page operation and the inputs it read
    doors,       \* vehicle door states, door index -> state
    engineOn,    \* vehicle.engineOn
    driver,      \* TRUE iff vehicle.driver is set
    emitted,     \* last value emitted to the driver with SYSTEM_EVENTS.VEHICLE_ENGINE
    vlast,       \* the most recent vehicle operation, its inputs and its result
    enabled,     \* weather.ts: let enabled
    interval,    \* weather.ts: let interval (never assigned: "undefined")
    timerActive, \* the timer created by alt.setInterval is still scheduled
    weathers,    \* weather.ts: the rotating weather list
    players,     \* player -> "absent" | "connected" | "spawned"
    playerWeather, \* player -> last value given to player.setWeather, or -1
    sent,        \* number of weather messages sent
    wlast        \* the most recent weather-system step

pageVars == <<info, pageOpen, isMenuOpen, calls, ret, last>>
vehVars == <<doors, engineOn, driver, emitted, vlast>>
weatherVars == <<enabled, interval, timerActive, weathers, players, playerWeather, sent, wlast>>
vars == <<pageVars, vehVars, weatherVars>>

(***************************************************************************)
(* Page descriptors (IPage).  A plain optional boolean flag is only ever   *)
(* tested for truthiness, so it is a BOOLEAN (absent behaves as FALSE);    *)
(* hideOverlays / showOverlays are compared with === false, so they keep   *)
(* three values; disableControls is the switch subject.                    *)
(* Descriptors are well formed: options.onOpen and options.onClose exist.  *)
(***************************************************************************)
Tri == {"undefined", "true", "false"}
ControlModes == {"all", "camera", "none", "undefined"}
Keybinds == {"absent", "key", "sameKeyToClose"}

OnOpenOptions ==
    [focus : BOOLEAN, showCursor : BOOLEAN, hideHud : BOOLEAN, hideOverlays : Tri,
     disableControls : ControlModes, disablePauseMenu : BOOLEAN,
     blurBackground : BOOLEAN, setIsMenuOpenToTrue : BOOLEAN]

OnCloseOptions ==
    [unfocus : BOOLEAN, hideCursor : BOOLEAN, showHud : BOOLEAN, showOverlays : Tri,
     enableControls : BOOLEAN, enablePauseMenu : BOOLEAN,
     unblurBackground : BOOLEAN, setIsMenuOpenToFalse : BOOLEAN]

\* Two fixed option sets used where the other option set is enumerated in full.
OnOpenSamples ==
    {[focus |-> b, showCursor |-> b, hideHud |-> b, hideOverlays |-> t,
      disableControls |-> IF b THEN "all" ELSE "undefined", disablePauseMenu |-> b,
      blurBackground |-> b, setIsMenuOpenToTrue |-> b] : b \in BOOLEAN, t \in Tri}

OnCloseSamples ==
    {[unfocus |-> b, hideCursor |-> b, showHud |-> b, showOverlays |-> t,
      enableControls |-> b, enablePauseMenu |-> b,
      unblurBackground |-> b, setIsMenuOpenToFalse |-> b] : b \in BOOLEAN, t \in Tri}

IPage(onOpens, onCloses) ==
    [name : {"inventory"}, onOpen : onOpens, onClose : onCloses, keybind : Keybinds]

When(c, s) == IF c THEN s ELSE << >>

Issued(c) == \E i \in DOMAIN calls : calls[i] = c

Count(c) == Cardinality({i \in DOMAIN calls : calls[i] = c})

(***************************************************************************)
(* Page.close(isManuallyTriggered)                                         *)
(***************************************************************************)
ShowOverlaysArg(page) == IF page.onClose.showOverlays = "false" THEN "false" ELSE "true"

\* Mutant: the direct show-overlays call is not restricted to the automatic path.
HideSurfaceCallsBoth(page, manual) ==
    When(manual, << "webview.close(showOverlays=" \o ShowOverlaysArg(page) \o ")" >>)
    \o When(ShowOverlaysArg(page) = "true", << "webview.showOverlays(true,false)" >>)

HideSurfaceCalls(page, manual) ==
    When(manual, << "webview.close(showOverlays=" \o ShowOverlaysArg(page) \o ")" >>)
    \o When(~manual /\ ShowOverlaysArg(page) = "true", << "webview.showOverlays(true,false)" >>)

RestoreCalls(page) ==
    When(page.onClose.hideCursor, << "webview.showCursor(false)" >>)
    \o When(page.onClose.unfocus, << "webview.unfocus" >>)
    \o When(page.onClose.unblurBackground, << "native.triggerScreenblurFadeOut(250)" >>)
    \o When(page.onClose.setIsMenuOpenToFalse, << "isMenuOpen=false" >>)
    \o When(page.onClose.showHud, << "native.displayRadar(true)", "native.displayHud(true)" >>)
    \o When(page.onClose.enablePauseMenu, << "PauseMenu.enable" >>)
    \o When(page.onClose.enableControls, << "alt.toggleGameControls(true)", "GameplayCamera.enable" >>)

\* Mutant: the callback runs only on the manual path.
CloseCallsManualOnly(page, manual) ==
    HideSurfaceCalls(page, manual) \o RestoreCalls(page)
    \o When(manual, << "callbacks.onClose" >>)

CloseCalls(page, manual) ==
    HideSurfaceCalls(page, manual) \o RestoreCalls(page) \o << "callbacks.onClose" >>

\* alt.Player.local.isMenuOpen after close()
CloseMenuFlag(page, flag) == IF page.onClose.setIsMenuOpenToFalse THEN FALSE ELSE flag

(***************************************************************************)
(* Page.open()                                                             *)
(***************************************************************************)
ToggleRedirect(page, open) == page.keybind = "sameKeyToClose" /\ open

\* Mutant: the console check is missing.
BlockedNoConsole(anyMenu, console, altMenu) == anyMenu \/ altMenu

Blocked(anyMenu, console, altMenu) == anyMenu \/ console \/ altMenu

\* Mutant: hideOverlays follows hideHud when it is omitted.
HideOverlaysArgFromHud(page) ==
    IF page.onOpen.hideOverlays = "undefined"
    THEN (IF page.onOpen.hideHud THEN "true" ELSE "false")
    ELSE page.onOpen.hideOverlays

HideOverlaysArg(page) == IF page.onOpen.hideOverlays = "false" THEN "false" ELSE "true"

\* Mutant: the 'all' case falls through into the 'camera' case.
DisableControlsCallsFallThrough(page) ==
    CASE page.onOpen.disableControls = "all" ->
             << "alt.toggleGameControls(false)", "GameplayCamera.disable" >>
      [] page.onOpen.disableControls = "camera" -> << "GameplayCamera.disable" >>
      [] OTHER -> << >>

DisableControlsCalls(page) ==
    CASE page.onOpen.disableControls = "all" -> << "alt.toggleGameControls(false)" >>
      [] page.onOpen.disableControls = "camera" -> << "GameplayCamera.disable" >>
      [] OTHER -> << >>

OpenEffectCalls(page) ==
    When(page.onOpen.focus, << "webview.focus" >>)
    \o When(page.onOpen.hideHud, << "webview.showOverlays(false)" >>)
    \o When(page.onOpen.showCursor, << "webview.showCursor(true)" >>)
    \o DisableControlsCalls(page)
    \o When(page.onOpen.disablePauseMenu, << "PauseMenu.disable" >>)
    \o When(page.onOpen.hideHud, << "native.displayRadar(false)", "native.displayHud(false)" >>)
    \o When(page.onOpen.blurBackground, << "native.triggerScreenblurFadeIn(250)" >>)
    \o When(page.onOpen.setIsMenuOpenToTrue, << "isMenuOpen=true" >>)

DisplayCall(page) == "webview.open(hideOverlays=" \o HideOverlaysArg(page) \o ")"

\* Mutant: the hand-over calls close() with its default argument.
RedirectOutcomeAutomatic(page, flag) ==
    [calls |-> CloseCalls(page, FALSE), ret |-> "false", pageOpen |-> FALSE,
     isMenuOpen |-> CloseMenuFlag(page, flag), closeRan |-> TRUE]

\* open() handed over to close(true): lines 239-243.
RedirectOutcome(page, flag) ==
    [calls |-> CloseCalls(page, TRUE), ret |-> "false", pageOpen |-> FALSE,
     isMenuOpen |-> CloseMenuFlag(page, flag), closeRan |-> TRUE]

\* open() stopped by one of the three host checks: lines 246-256.
BlockedOutcome(open, flag) ==
    [calls |-> << >>, ret |-> "false", pageOpen |-> open, isMenuOpen |-> flag,
     closeRan |-> FALSE]

\* open() went through: lines 258-301.
OpenedOutcome(page, flag) ==
    [calls |-> OpenEffectCalls(page) \o << DisplayCall(page) >>, ret |-> "true",
     pageOpen |-> TRUE,
     isMenuOpen |-> IF page.onOpen.setIsMenuOpenToTrue THEN TRUE ELSE flag,
     closeRan |-> FALSE]

\* Mutant: open() refuses to run while the surface is already open.
OpenOutcomeGuarded(page, open, flag, anyMenu, console, altMenu) ==
    IF ToggleRedirect(page, open) THEN RedirectOutcome(page, flag)
    ELSE IF Blocked(anyMenu, console, altMenu) \/ open THEN BlockedOutcome(open, flag)
    ELSE OpenedOutcome(page, flag)

\* The whole of open(): the calls issued, the value returned, and the state left.
OpenOutcome(page, open, flag, anyMenu, console, altMenu) ==
    IF ToggleRedirect(page, open) THEN RedirectOutcome(page, flag)
    ELSE IF Blocked(anyMenu, console, altMenu) THEN BlockedOutcome(open, flag)
    ELSE OpenedOutcome(page, flag)

NoCall == [op |-> "none", anyMenu |-> FALSE, console |-> FALSE, altMenu |-> FALSE,
           wasOpen |-> FALSE, flag |-> FALSE, closeRan |-> FALSE, manual |-> FALSE,
           afterOpen |-> FALSE]

\* The operation before this one was an open() that returned true.
JustOpened == last.op = "open" /\ ret = "true"

\* open(): the three host checks are answered by the host at call time.
Open ==
    \E anyMenu \in BOOLEAN, console \in BOOLEAN, altMenu \in BOOLEAN :
        LET r == OpenOutcome(info, pageOpen, isMenuOpen, anyMenu, console, altMenu) IN
        /\ calls' = r.calls
        /\ ret' = r.ret
        /\ pageOpen' = r.pageOpen
        /\ isMenuOpen' = r.isMenuOpen
        /\ last' = [op |-> "open", anyMenu |-> anyMenu, console |-> console,
                    altMenu |-> altMenu, wasOpen |-> pageOpen, flag |-> isMenuOpen,
                    closeRan |-> r.closeRan, manual |-> r.closeRan,
                    afterOpen |-> JustOpened]
        /\ UNCHANGED <<info, vehVars, weatherVars>>

\* close(isManuallyTriggered) called by application code.
Close ==
    \E manual \in BOOLEAN :
        /\ calls' = CloseCalls(info, manual)
        /\ ret' = "undefined"
        /\ pageOpen' = IF manual THEN FALSE ELSE pageOpen
        /\ isMenuOpen' = CloseMenuFlag(info, isMenuOpen)
        /\ last' = [NoCall EXCEPT !.op = "close", !.wasOpen = pageOpen,
                                  !.flag = isMenuOpen, !.closeRan = TRUE,
                                  !.manual = manual]
        /\ UNCHANGED <<info, vehVars, weatherVars>>

\* The host's escape-key handler removed the surface and runs the handler
\* registered by open(): close.bind(this), i.e. close() with the default argument.
EscapeClose ==
    /\ pageOpen
    /\ calls' = CloseCalls(info, FALSE)
    /\ ret' = "undefined"
    /\ pageOpen' = FALSE
    /\ isMenuOpen' = CloseMenuFlag(info, isMenuOpen)
    /\ last' = [NoCall EXCEPT !.op = "escape", !.wasOpen = TRUE, !.flag = isMenuOpen,
                              !.closeRan = TRUE]
    /\ UNCHANGED <<info, vehVars, weatherVars>>

PageNext == Open \/ Close \/ EscapeClose

(***************************************************************************)
(* Vehicle helpers: toggleEngine, toggleDoor                               *)
(***************************************************************************)
MaxDoor == 5
DoorClosed == 0
DoorOpen == 7
MaxAjar == 1

Doors == 0..MaxDoor

\* States a door can be left in by the game or other scripts.
DoorStates == {DoorClosed, DoorOpen} \cup (1..MaxAjar)

NoVehicleCall == [op |-> "none", door |-> 0, before |-> FALSE, ret |-> FALSE]

ToggleEngine ==
    /\ IF driver
       THEN /\ emitted' = << ~engineOn >>
            /\ engineOn' = engineOn
       ELSE /\ engineOn' = ~engineOn
            /\ emitted' = emitted
    /\ vlast' = [op |-> "toggleEngine", door |-> 0, before |-> engineOn, ret |-> engineOn']
    /\ UNCHANGED <<doors, driver, pageVars, weatherVars>>

ToggleDoor ==
    \E door \in Doors :
        LET isClosed == IF doors[door] = DoorClosed THEN TRUE ELSE FALSE
            doorState == IF isClosed = FALSE THEN DoorClosed ELSE DoorOpen
        IN  /\ doors' = [doors EXCEPT ![door] = doorState]
            /\ vlast' = [op |-> "toggleDoor", door |-> door, before |-> isClosed,
                         ret |-> (isClosed = FALSE)]
            /\ UNCHANGED <<engineOn, driver, emitted, pageVars, weatherVars>>

\* A player takes or leaves the driver seat.
SetDriver ==
    /\ driver' = ~driver
    /\ vlast' = NoVehicleCall
    /\ UNCHANGED <<doors, engineOn, emitted, pageVars, weatherVars>>

\* The game or another script moves a door.
SetDoorState ==
    \E door \in Doors, s \in DoorStates :
        /\ doors[door] # s
        /\ doors' = [doors EXCEPT ![door] = s]
        /\ vlast' = NoVehicleCall
        /\ UNCHANGED <<engineOn, driver, emitted, pageVars, weatherVars>>

VehicleNext == ToggleEngine \/ ToggleDoor \/ SetDriver \/ SetDoorState

(***************************************************************************)
(* Default weather system                                                  *)
(***************************************************************************)
MaxPlayers == 2
MaxSent == 4

Players == 1..MaxPlayers

WeatherList ==
    << "ExtraSunny", "ExtraSunny", "Clear", "Clouds", "Overcast", "Rain", "Thunder",
       "Rain", "Foggy", "Overcast", "Clearing" >>

\* shared/utility/weather: the game's weather id of a weather key.
getWeatherFromString(key) ==
    CASE key = "ExtraSunny" -> 0 [] key = "Clear" -> 1 [] key = "Clouds" -> 2
      [] key = "Smog" -> 3 [] key = "Foggy" -> 4 [] key = "Overcast" -> 5
      [] key = "Rain" -> 6 [] key = "Thunder" -> 7 [] key = "Clearing" -> 8

getCurrentWeather(asString) ==
    IF asString THEN weathers[1] ELSE getWeatherFromString(weathers[1])

\* weathers.push(weathers.shift())
Rotate(ws) == Tail(ws) \o << Head(ws) >>

\* updatePlayer(player) for every player of ps, with the list ws:
\* the new playerWeather and the number of messages sent.
updatePlayer(en, ws, pw, ps) ==
    IF ~en
    THEN [pw |-> pw, sent |-> 0]
    ELSE [pw |-> [p \in Players |-> IF p \in ps THEN getWeatherFromString(ws[1]) ELSE pw[p]],
          sent |-> Cardinality(ps)]

loggedInPlayers == {p \in Players : players[p] = "spawned"}

\* Mutant: the timer handler without its `if (!enabled) return`.
HandleWeatherUpdateUnguarded ==
    /\ timerActive
    /\ sent + MaxPlayers <= MaxSent
    /\ IF Cardinality(loggedInPlayers) <= 0
       THEN UNCHANGED <<weathers, playerWeather, sent>>
       ELSE LET r == updatePlayer(enabled, Rotate(weathers), playerWeather, loggedInPlayers)
            IN  /\ weathers' = Rotate(weathers)
                /\ playerWeather' = r.pw
                /\ sent' = sent + r.sent
    /\ wlast' = "handleWeatherUpdate"
    /\ UNCHANGED <<enabled, interval, timerActive, players, pageVars, vehVars>>

\* The periodic timer fires handleWeatherUpdate.
HandleWeatherUpdate ==
    /\ timerActive
    /\ sent + MaxPlayers <= MaxSent
    /\ IF ~enabled \/ Cardinality(loggedInPlayers) <= 0
       THEN UNCHANGED <<weathers, playerWeather, sent>>
       ELSE LET r == updatePlayer(enabled, Rotate(weathers), playerWeather, loggedInPlayers)
            IN  /\ weathers' = Rotate(weathers)
                /\ playerWeather' = r.pw
                /\ sent' = sent + r.sent
    /\ wlast' = "handleWeatherUpdate"
    /\ UNCHANGED <<enabled, interval, timerActive, players, pageVars, vehVars>>

\* A player joins the server.
Connect ==
    \E p \in Players :
        /\ players[p] = "absent"
        /\ players' = [players EXCEPT ![p] = "connected"]
        /\ wlast' = "connect"
        /\ UNCHANGED <<enabled, interval, timerActive, weathers, playerWeather, sent,
                       pageVars, vehVars>>

\* ATHENA_EVENTS_PLAYER.SELECTED_CHARACTER runs updatePlayer; the player then spawns.
SelectedCharacter ==
    \E p \in Players :
        /\ players[p] = "connected"
        /\ sent < MaxSent
        /\ LET r == updatePlayer(enabled, weathers, playerWeather, {p})
           IN  /\ playerWeather' = r.pw
               /\ sent' = sent + r.sent
        /\ players' = [players EXCEPT ![p] = "spawned"]
        /\ wlast' = "selectedCharacter"
        /\ UNCHANGED <<enabled, interval, timerActive, weathers, pageVars, vehVars>>

\* DefaultWeatherSystem.updatePlayer(player) called by other code.
UpdatePlayerCall ==
    \E p \in Players :
        /\ players[p] # "absent"
        /\ sent < MaxSent
        /\ LET r == updatePlayer(enabled, weathers, playerWeather, {p})
           IN  /\ playerWeather' = r.pw
               /\ sent' = sent + r.sent
        /\ wlast' = "updatePlayer"
        /\ UNCHANGED <<enabled, interval, timerActive, weathers, players, pageVars, vehVars>>

\* A player leaves the server.
Disconnect ==
    \E p \in Players :
        /\ players[p] # "absent"
        /\ players' = [players EXCEPT ![p] = "absent"]
        /\ playerWeather' = [playerWeather EXCEPT ![p] = -1]
        /\ wlast' = "disconnect"
        /\ UNCHANGED <<enabled, interval, timerActive, weathers, sent, pageVars, vehVars>>

\* DefaultWeatherSystem.disable()
Disable ==
    /\ enabled' = FALSE
    /\ IF interval # "undefined"
       THEN /\ timerActive' = FALSE
            /\ interval' = "undefined"
       ELSE UNCHANGED <<timerActive, interval>>
    /\ wlast' = "disable"
    /\ UNCHANGED <<weathers, players, playerWeather, sent, pageVars, vehVars>>

WeatherNext ==
    HandleWeatherUpdate \/ Connect \/ SelectedCharacter \/ UpdatePlayerCall
        \/ Disconnect \/ Disable

(***************************************************************************)
(* Initial states and specifications                                       *)
(***************************************************************************)
PageInit(descriptors) ==
    /\ info \in descriptors
    /\ pageOpen = FALSE
    /\ isMenuOpen = FALSE
    /\ calls = << >>
    /\ ret = "none"
    /\ last = NoCall

VehInit ==
    /\ doors = [d \in Doors |-> DoorClosed]
    /\ engineOn = FALSE
    /\ driver = FALSE
    /\ emitted = << >>
    /\ vlast = NoVehicleCall

\* Module load: enabled, interval unassigned (the id returned by alt.setInterval
\* on the last line is discarded), the timer scheduled.
WeatherInit ==
    /\ enabled = TRUE
    /\ interval = "undefined"
    /\ timerActive = TRUE
    /\ weathers = WeatherList
    /\ players = [p \in Players |-> "absent"]
    /\ playerWeather = [p \in Players |-> -1]
    /\ sent = 0
    /\ wlast = "none"

\* Every onOpen option set, with the sample onClose option sets.
InitOpen == PageInit(IPage(OnOpenOptions, OnCloseSamples)) /\ VehInit /\ WeatherInit

\* Every onClose option set, with the sample onOpen option sets.
InitClose == PageInit(IPage(OnOpenSamples, OnCloseOptions)) /\ VehInit /\ WeatherInit

\* One page, untouched, beside the vehicle and the weather system.
InventoryPage ==
    [name |-> "inventory",
     onOpen |-> [focus |-> TRUE, showCursor |-> FALSE, hideHud |-> TRUE,
                 hideOverlays |-> "undefined", disableControls |-> "undefined",
                 disablePauseMenu |-> FALSE, blurBackground |-> FALSE,
                 setIsMenuOpenToTrue |-> FALSE],
     onClose |-> [unfocus |-> FALSE, hideCursor |-> FALSE, showHud |-> TRUE,
                  showOverlays |-> "undefined", enableControls |-> FALSE,
                  enablePauseMenu |-> FALSE, unblurBackground |-> FALSE,
                  setIsMenuOpenToFalse |-> FALSE],
     keybind |-> "absent"]

InitOther == PageInit({InventoryPage}) /\ VehInit /\ WeatherInit

SpecOpen == InitOpen /\ [][PageNext]_vars

SpecClose == InitClose /\ [][PageNext]_vars

SpecVehicle == InitOther /\ [][VehicleNext]_vars

SpecWeather == InitOther /\ [][WeatherNext]_vars

(***************************************************************************)
(* Claims                                                                  *)
(***************************************************************************)
HostCheckTrue == last.anyMenu \/ last.console \/ last.altMenu

SameKeyAndOpen == info.keybind = "sameKeyToClose" /\ last.wasOpen

\* C1 (as stated): whenever one of isAnyMenuOpen(), alt.isConsoleOpen() or
\* alt.isMenuOpen() is true when open() is called, open() returns false and issues
\* no call and changes no state at all.
C1_BlockedOpenHasNoEffect ==
    (last.op = "open" /\ HostCheckTrue)
        => /\ ret = "false"
           /\ calls = << >>
           /\ pageOpen = last.wasOpen
           /\ isMenuOpen = last.flag

\* C1 (amended): the same, except when keybind.useSameKeyToClose is true and the
\* surface reports open; that test comes first and runs close(true).
C1_BlockedOpenHasNoEffectUnlessToggle ==
    (last.op = "open" /\ HostCheckTrue /\ ~SameKeyAndOpen)
        => /\ ret = "false"
           /\ calls = << >>
           /\ pageOpen = last.wasOpen
           /\ isMenuOpen = last.flag

C1_Witness ==
    /\ last.op = "open"
    /\ last.console /\ ~last.anyMenu /\ ~last.altMenu
    /\ info.keybind = "sameKeyToClose" /\ ~last.wasOpen
    /\ info.onOpen.focus /\ info.onOpen.hideHud /\ info.onOpen.setIsMenuOpenToTrue
    /\ ret = "false"

OpenSideCalls ==
    {"webview.focus", "webview.showOverlays(false)", "webview.showCursor(true)",
     "alt.toggleGameControls(false)", "GameplayCamera.disable", "PauseMenu.disable",
     "native.displayRadar(false)", "native.displayHud(false)",
     "native.triggerScreenblurFadeIn(250)", "isMenuOpen=true",
     "webview.open(hideOverlays=true)", "webview.open(hideOverlays=false)"}

\* C2: with keybind.useSameKeyToClose true and the surface open, open() issues
\* exactly the calls of close(true) and leaves the state close(true) leaves,
\* issues no open-side call, and returns false.
C2_OpenTogglesToCloseTrue ==
    (last.op = "open" /\ SameKeyAndOpen)
        => /\ ret = "false"
           /\ calls = CloseCalls(info, TRUE)
           /\ Count("webview.close(showOverlays=" \o ShowOverlaysArg(info) \o ")") = 1
           /\ calls[Len(calls)] = "callbacks.onClose"
           /\ \A c \in OpenSideCalls : ~Issued(c)
           /\ pageOpen = FALSE
           /\ isMenuOpen = (IF info.onClose.setIsMenuOpenToFalse THEN FALSE ELSE last.flag)

C2_Witness ==
    /\ last.op = "open"
    /\ SameKeyAndOpen
    /\ info.onOpen.focus /\ info.onOpen.hideHud
    /\ info.onClose.showHud /\ info.onClose.showOverlays = "false"
    /\ ret = "false"

\* C3: every run of close(), manual or not, invokes callbacks.onClose exactly once,
\* as its last call.
C3_OnCloseOnceAndLast ==
    last.closeRan
        => /\ Count("callbacks.onClose") = 1
           /\ calls[Len(calls)] = "callbacks.onClose"

C3_Witness ==
    /\ last.op = "escape"
    /\ ~last.manual
    /\ info.onClose.enableControls /\ info.onClose.showHud /\ ~info.onClose.unfocus
    /\ Len(calls) > 4

\* C4: toggleDoor returns true exactly when the door state it wrote is an open
\* (non-zero) state.
C4_ToggleDoorReturnsNewState ==
    vlast.op = "toggleDoor" => (vlast.ret <=> doors[vlast.door] # DoorClosed)

\* C5: toggleEngine returns the negation of vehicle.engineOn as it was before the
\* call, with or without a driver.
C5_ToggleEngineReturnsNewState ==
    vlast.op = "toggleEngine" => (vlast.ret = ~vlast.before)

\* C6: in an open() that passes its checks, disableControls 'all' disables all game
\* controls and not the camera, 'camera' disables the camera and not all controls,
\* anything else does neither.
C6_DisableControlsDispatch ==
    (last.op = "open" /\ ret = "true")
        => LET mode == info.onOpen.disableControls
               all == Count("alt.toggleGameControls(false)")
               camera == Count("GameplayCamera.disable")
           IN  /\ mode = "all" => (all = 1 /\ camera = 0)
               /\ mode = "camera" => (all = 0 /\ camera = 1)
               /\ mode \notin {"all", "camera"} => (all = 0 /\ camera = 0)

C6_Witness ==
    /\ last.op = "open" /\ ret = "true"
    /\ info.onOpen.disableControls = "all"
    /\ Issued("alt.toggleGameControls(false)")

\* C7: the hideOverlays argument of the display call is true when
\* onOpen.hideOverlays is omitted or true and false only when it is false,
\* whatever the other flags are.
C7_HideOverlaysDefaultsToTrue ==
    (last.op = "open" /\ ret = "true")
        => LET shown == Count("webview.open(hideOverlays=true)")
               hidden == Count("webview.open(hideOverlays=false)")
           IN  /\ shown + hidden = 1
               /\ info.onOpen.hideOverlays \in {"undefined", "true"} => shown = 1
               /\ info.onOpen.hideOverlays = "false" => hidden = 1

C7_Witness ==
    /\ last.op = "open" /\ ret = "true"
    /\ info.onOpen.hideOverlays = "undefined"
    /\ ~info.onOpen.hideHud
    /\ Issued("webview.open(hideOverlays=true)")

\* C8: close(true) issues exactly one webview.close with the computed showOverlays
\* and no direct webview.showOverlays; close(false) issues no webview.close and
\* the direct webview.showOverlays(true, false) exactly when showOverlays is true.
C8_HideSurfaceOrShowOverlays ==
    last.closeRan
        => LET show == info.onClose.showOverlays # "false"
               hideTrue == Count("webview.close(showOverlays=true)")
               hideFalse == Count("webview.close(showOverlays=false)")
               direct == Count("webview.showOverlays(true,false)")
           IN  /\ last.manual =>
                      /\ hideTrue = (IF show THEN 1 ELSE 0)
                      /\ hideFalse = (IF show THEN 0 ELSE 1)
                      /\ direct = 0
               /\ ~last.manual =>
                      /\ hideTrue = 0 /\ hideFalse = 0
                      /\ direct = (IF show THEN 1 ELSE 0)
               /\ ~(hideTrue + hideFalse > 0 /\ direct > 0)

C8_Witness ==
    /\ last.op = "close"
    /\ last.manual
    /\ info.onClose.showOverlays = "undefined"
    /\ Issued("webview.close(showOverlays=true)")

\* The calls the onOpen flags of the descriptor ask for.
C9_EnabledCalls ==
    (IF info.onOpen.focus THEN {"webview.focus"} ELSE {})
    \cup (IF info.onOpen.hideHud
          THEN {"webview.showOverlays(false)", "native.displayRadar(false)",
                "native.displayHud(false)"}
          ELSE {})
    \cup (IF info.onOpen.showCursor THEN {"webview.showCursor(true)"} ELSE {})
    \cup (IF info.onOpen.disableControls = "all" THEN {"alt.toggleGameControls(false)"} ELSE {})
    \cup (IF info.onOpen.disableControls = "camera" THEN {"GameplayCamera.disable"} ELSE {})
    \cup (IF info.onOpen.disablePauseMenu THEN {"PauseMenu.disable"} ELSE {})
    \cup (IF info.onOpen.blurBackground THEN {"native.triggerScreenblurFadeIn(250)"} ELSE {})
    \cup (IF info.onOpen.setIsMenuOpenToTrue THEN {"isMenuOpen=true"} ELSE {})

C10_DisabledWeatherIsFrozen ==
    [][~enabled =>
          /\ ~enabled'
          /\ weathers' = weathers
          /\ getCurrentWeather(TRUE)' = getCurrentWeather(TRUE)
          /\ getCurrentWeather(FALSE)' = getCurrentWeather(FALSE)
          /\ sent' = sent
          /\ \A p \in Players :
                 playerWeather'[p] = playerWeather[p] \/ players'[p] = "absent"]_vars

C10_Witness ==
    /\ ~enabled
    /\ timerActive
    /\ wlast = "handleWeatherUpdate"
    /\ loggedInPlayers # {}
    /\ weathers # WeatherList
====
